---- MODULE Spec2Model ----
(***************************************************************************)
(* A model of the indirection and lazy-materialization layer of            *)
(* awkward-array: VirtualArray (src/awkward/array/virtual.py) and          *)
(* IndexedArray, ByteIndexedArray, IndexedMaskedArray and UnionArray       *)
(* (src/awkward/array/indexed.py).                                         *)
(*                                                                         *)
(* Each class is a state machine of its own over its own variables; the    *)
(* module has one specification per class (SpecVirtual, SpecIndexed,       *)
(* SpecMasked, SpecUnion, SpecBytes), each leaving the other classes'      *)
(* variables alone, SpecViews for a view of any index-based kind, and      *)
(* SpecShared for two VirtualArrays on one cache. SpecBytes draws every    *)
(* buffer, item size and index and applies the reads; SpecBytesWrite runs  *)
(* every ByteIndexedArray operation, the writes and the setters included.  *)
(***************************************************************************)
EXTENDS Integers, Sequences, FiniteSets, TLC

VARIABLES
    \* ---- IndexedArray: one view object
    iindex,     \* _index
    icontent,   \* _content
    iwriteable, \* _writeable
    ilast,      \* the call being made: its arguments and its outcome
    \* ---- VirtualArray: two view objects sharing one external cache
    valive,     \* valive[v]: the object with runtime id v exists
    vpkey,      \* _persistentkey: {} for None, else {name}
    vcache,     \* _cache is the shared cache (TRUE) or None (FALSE)
    varray,     \* _array: nothing, an array, or a key
    vdtype,     \* _dtype: {} for None, else {dtype}
    vshape,     \* _shape: {} for None, else {shape tuple}
    cache,      \* the external cache: a function from the keys present to arrays
    ncalls,     \* ncalls[v]: calls made so far to view v's (counting) generator
    vlast,      \* the last operation: what it was, on which view, and its outcome
    \* ---- IndexedMaskedArray: one view object
    mindex,     \* _index
    mcontent,   \* _content
    mmaskedwhen,\* _maskedwhen
    mwriteable, \* _writeable
    mlast,      \* the call being made: its arguments and its outcome
    \* ---- UnionArray: one view object
    utags,      \* _tags
    uindex,     \* _index
    ucontents,  \* _contents: a tuple of arrays
    uwriteable, \* _writeable
    ulast,      \* the call being made: its arguments and its outcome
    \* ---- ByteIndexedArray: one view object
    bindex,     \* _index: byte offsets into the content
    bcontent,   \* _content: the buffer, as bytes
    bitemsize,  \* _dtype.itemsize
    bwriteable, \* _writeable, which _content.flags.writeable follows
    blast       \* the call being made: its arguments and its outcome

varsVirtual == <<valive, vpkey, vcache, varray, vdtype, vshape, cache, ncalls, vlast>>
varsMasked == <<mindex, mcontent, mmaskedwhen, mwriteable, mlast>>
varsUnion == <<utags, uindex, ucontents, uwriteable, ulast>>

varsBytes == <<bindex, bcontent, bitemsize, bwriteable, blast>>
varsIndexed == <<iindex, icontent, iwriteable, ilast>>

vars == <<varsVirtual, varsMasked, varsUnion, varsBytes, varsIndexed>>

\* What each class's operations leave alone: the other classes' objects.
notVirtual == <<varsMasked, varsUnion, varsBytes, varsIndexed>>
notMasked == <<varsVirtual, varsUnion, varsBytes, varsIndexed>>
notUnion == <<varsVirtual, varsMasked, varsBytes, varsIndexed>>
notBytes == <<varsVirtual, varsMasked, varsUnion, varsIndexed>>
notIndexed == <<varsVirtual, varsMasked, varsUnion, varsBytes>>

(***************************************************************************)
(*                              VirtualArray                               *)
(***************************************************************************)

\* The ids of the view objects. Python gives two live objects distinct ids and
\* may give a new object the id of a collected one: a slot is an id.
Views == {1, 2}

\* Calls the generators may receive, in all, in one behaviour: enough for
\* two views to fill a shared cache and for one of them to fill it again.
MaxCalls == 3

PersistentNames == {"a"}

DTypes == {"i8", "f8"}

\* What a generator may return: a dtype and a shape tuple (<<>> is a scalar).
GenOutputs ==
    { [dtype |-> "i8", shape |-> <<2>>],
      [dtype |-> "f8", shape |-> <<2>>],
      [dtype |-> "i8", shape |-> <<3>>],
      [dtype |-> "i8", shape |-> <<>>] }

\* The expectations a view may declare.
DeclaredDTypes == {{}, {"i8"}}
DeclaredShapes == {{}, {<<2>>}}

\* An array a generator produced is known by the view whose generator made it
\* and the number of the call that made it.
NoArray == [owner |-> 0, serial |-> 0]
NoKey == [kind |-> "", id |-> 0, name |-> ""]

TransientKey(id) == [kind |-> "transient", id |-> id, name |-> ""]
PersistentKey(name) == [kind |-> "persistent", id |-> 0, name |-> name]

HoldsNothing == [kind |-> "none", a |-> NoArray, k |-> NoKey]
HoldsArray(a) == [kind |-> "array", a |-> a, k |-> NoKey]
HoldsKey(k) == [kind |-> "key", a |-> NoArray, k |-> k]

\* key taking the id of the class, the same for every view, for id(self).
keyMutant(v) ==
    IF vpkey[v] # {}
    THEN PersistentKey(CHOOSE n \in vpkey[v] : TRUE)
    ELSE TransientKey(0)

\* VirtualArray.key
key(v) ==
    IF vpkey[v] # {}
    THEN PersistentKey(CHOOSE n \in vpkey[v] : TRUE)
    ELSE TransientKey(v)

CachePut(c, k, a) == [x \in DOMAIN c \cup {k} |-> IF x = k THEN a ELSE c[x]]
CacheDel(c, k) == [x \in DOMAIN c \ {k} |-> c[x]]

\* materialize storing the array before it validates it.
materializeMutant(v, out) ==
    LET array == [owner |-> v, serial |-> ncalls[v] + 1]
        held == IF vcache[v] THEN HoldsKey(key(v)) ELSE HoldsArray(array)
        stored == IF vcache[v] THEN CachePut(cache, key(v), array) ELSE cache
        fail(e) == [err |-> e, ret |-> NoArray, held |-> held,
                    cache |-> stored, calls |-> 1]
    IN  IF vdtype[v] # {} /\ out.dtype \notin vdtype[v] THEN fail("dtype")
        ELSE IF vshape[v] # {} /\ out.shape \notin vshape[v] THEN fail("shape")
        ELSE IF Len(out.shape) = 0 THEN fail("scalar")
        ELSE [err |-> "none", ret |-> array, held |-> held,
              cache |-> stored, calls |-> 1]

\* VirtualArray.materialize with the generator returning `out`: the outcome as
\* [err, ret, held, cache, calls]. The generator is called before every check.
materialize(v, out) ==
    LET array == [owner |-> v, serial |-> ncalls[v] + 1]
        fail(e) == [err |-> e, ret |-> NoArray, held |-> varray[v],
                    cache |-> cache, calls |-> 1]
    IN  IF vdtype[v] # {} /\ out.dtype \notin vdtype[v] THEN fail("dtype")
        ELSE IF vshape[v] # {} /\ out.shape \notin vshape[v] THEN fail("shape")
        ELSE IF Len(out.shape) = 0 THEN fail("scalar")
        ELSE IF ~vcache[v]
        THEN [err |-> "none", ret |-> array, held |-> HoldsArray(array),
              cache |-> cache, calls |-> 1]
        ELSE [err |-> "none", ret |-> array, held |-> HoldsKey(key(v)),
              cache |-> CachePut(cache, key(v), array), calls |-> 1]

\* array with the cache lookup left unguarded: a missing entry is an error.
arrayMutant(v, out) ==
    LET something == varray[v]
    IN  IF something.kind = "none" THEN materialize(v, out)
        ELSE IF ~vcache[v]
        THEN IF something.kind = "key"
             THEN materialize(v, out)
             ELSE [err |-> "none", ret |-> something.a, held |-> something,
                   cache |-> cache, calls |-> 0]
        ELSE IF something.kind = "key"
             THEN IF something.k \in DOMAIN cache
                  THEN [err |-> "none", ret |-> cache[something.k],
                        held |-> something, cache |-> cache, calls |-> 0]
                  ELSE [err |-> "KeyError", ret |-> NoArray,
                        held |-> something, cache |-> cache, calls |-> 0]
             ELSE [err |-> "none", ret |-> something.a, held |-> something,
                   cache |-> CachePut(cache, key(v), something.a), calls |-> 0]

\* VirtualArray.array: the outcome of the read, as materialize's.
array(v, out) ==
    LET something == varray[v]
    IN  IF something.kind = "none" THEN materialize(v, out)
        ELSE IF ~vcache[v]
        THEN IF something.kind = "key"
             THEN materialize(v, out)
             ELSE [err |-> "none", ret |-> something.a, held |-> something,
                   cache |-> cache, calls |-> 0]
        ELSE IF something.kind = "key"
             THEN IF something.k \in DOMAIN cache
                  THEN [err |-> "none", ret |-> cache[something.k],
                        held |-> something, cache |-> cache, calls |-> 0]
                  ELSE materialize(v, out)
             ELSE [err |-> "none", ret |-> something.a, held |-> something,
                   cache |-> CachePut(cache, key(v), something.a), calls |-> 0]

\* __setitem__ dropping what the view holds instead of raising.
VSetitemMutant(v) ==
    [err |-> "none", held |-> HoldsNothing, cache |-> cache, calls |-> 0]

\* VirtualArray.__setitem__: always raises, touching nothing.
VSetitem(v) ==
    [err |-> "read-only", held |-> varray[v], cache |-> cache, calls |-> 0]

\* VirtualArray.__del__: the cache after the object is collected.
Del(v) ==
    IF vcache[v] /\ varray[v].kind = "key" /\ varray[v].k.kind = "transient"
    THEN CacheDel(cache, varray[v].k)
    ELSE cache

\* vlast after an operation that returns nothing the model looks at. For a
\* read and a materialize call, held is what the view held when it was called.
NoOut == [dtype |-> "", shape |-> <<>>]
Other ==
    [op |-> "other", view |-> 0, calls |-> 0, out |-> NoOut, err |-> "none",
     ret |-> NoArray, held |-> HoldsNothing]

InitVirtual ==
    /\ valive = [v \in Views |-> FALSE]
    /\ vpkey = [v \in Views |-> {}]
    /\ vcache = [v \in Views |-> FALSE]
    /\ varray = [v \in Views |-> HoldsNothing]
    /\ \E d \in DeclaredDTypes : vdtype = [v \in Views |-> IF v = 1 THEN d ELSE {}]
    /\ \E s \in DeclaredShapes : vshape = [v \in Views |-> IF v = 1 THEN s ELSE {}]
    /\ cache = <<>>
    /\ ncalls = [v \in Views |-> 0]
    /\ vlast = Other

\* VirtualArray.__init__(generator, cache, persistentkey, dtype, shape): a new
\* object, possibly with the id of a collected one.
Construct(v) ==
    /\ ~valive[v]
    /\ \E c \in BOOLEAN, pk \in {{}} \cup {{n} : n \in PersistentNames} :
          /\ vcache' = [vcache EXCEPT ![v] = c]
          /\ vpkey' = [vpkey EXCEPT ![v] = pk]
    /\ valive' = [valive EXCEPT ![v] = TRUE]
    /\ varray' = [varray EXCEPT ![v] = HoldsNothing]
    /\ vlast' = Other
    /\ UNCHANGED <<vdtype, vshape, cache, ncalls>>
    /\ UNCHANGED notVirtual

\* A read: VirtualArray.array (and __getitem__, which reads through it).
Read(v) ==
    /\ valive[v]
    /\ \E out \in GenOutputs :
          LET r == array(v, out)
          IN  /\ r.calls = 0 \/ ncalls[1] + ncalls[2] < MaxCalls
              /\ varray' = [varray EXCEPT ![v] = r.held]
              /\ cache' = r.cache
              /\ ncalls' = [ncalls EXCEPT ![v] = @ + r.calls]
              /\ vlast' = [op |-> "read", view |-> v, calls |-> r.calls,
                           out |-> IF r.calls = 0 THEN NoOut ELSE out,
                           err |-> r.err, ret |-> r.ret, held |-> varray[v]]
    /\ UNCHANGED <<valive, vpkey, vcache, vdtype, vshape>>
    /\ UNCHANGED notVirtual

\* A direct call of VirtualArray.materialize(): the generator is called
\* whatever the view holds, and its array replaces what was stored.
Materialize(v) ==
    /\ valive[v]
    /\ ncalls[1] + ncalls[2] < MaxCalls
    /\ \E out \in GenOutputs :
          LET r == materialize(v, out)
          IN  /\ varray' = [varray EXCEPT ![v] = r.held]
              /\ cache' = r.cache
              /\ ncalls' = [ncalls EXCEPT ![v] = @ + r.calls]
              /\ vlast' = [op |-> "materialize", view |-> v, calls |-> r.calls,
                           out |-> out, err |-> r.err, ret |-> r.ret,
                           held |-> varray[v]]
    /\ UNCHANGED <<valive, vpkey, vcache, vdtype, vshape>>
    /\ UNCHANGED notVirtual

\* A write: VirtualArray.__setitem__.
Write(v) ==
    /\ valive[v]
    /\ LET r == VSetitem(v)
       IN  /\ varray' = [varray EXCEPT ![v] = r.held]
           /\ cache' = r.cache
           /\ ncalls' = [ncalls EXCEPT ![v] = @ + r.calls]
           /\ vlast' = [op |-> "write", view |-> v, calls |-> r.calls,
                        out |-> NoOut, err |-> r.err, ret |-> NoArray,
                        held |-> HoldsNothing]
    /\ UNCHANGED <<valive, vpkey, vcache, vdtype, vshape>>
    /\ UNCHANGED notVirtual

\* The cache's owner deletes an entry out-of-band.
Evict ==
    /\ \E k \in DOMAIN cache : cache' = CacheDel(cache, k)
    /\ vlast' = Other
    /\ UNCHANGED <<valive, vpkey, vcache, varray, vdtype, vshape, ncalls>>
    /\ UNCHANGED notVirtual

\* The cache setter: the user attaches the cache to a view or removes it.
SetCache(v) ==
    /\ valive[v]
    /\ vcache' = [vcache EXCEPT ![v] = ~vcache[v]]
    /\ vlast' = Other
    /\ UNCHANGED <<valive, vpkey, varray, vdtype, vshape, cache, ncalls>>
    /\ UNCHANGED notVirtual

\* The persistentkey setter: the user gives a live view a persistent key,
\* another one, or none. What the view holds and the cache stay as they are.
SetPersistentKey(v) ==
    /\ valive[v]
    /\ \E pk \in {{}} \cup {{n} : n \in PersistentNames} :
          vpkey' = [vpkey EXCEPT ![v] = pk]
    /\ vlast' = Other
    /\ UNCHANGED <<valive, vcache, varray, vdtype, vshape, cache, ncalls>>
    /\ UNCHANGED notVirtual

\* The object is collected: VirtualArray.__del__ runs.
Destroy(v) ==
    /\ valive[v]
    /\ valive' = [valive EXCEPT ![v] = FALSE]
    /\ cache' = Del(v)
    \* the object and its attributes are gone
    /\ vpkey' = [vpkey EXCEPT ![v] = {}]
    /\ vcache' = [vcache EXCEPT ![v] = FALSE]
    /\ varray' = [varray EXCEPT ![v] = HoldsNothing]
    /\ vlast' = [op |-> "del", view |-> v, calls |-> 0, out |-> NoOut,
                 err |-> "none", ret |-> NoArray, held |-> HoldsNothing]
    /\ UNCHANGED <<vdtype, vshape, ncalls>>
    /\ UNCHANGED notVirtual

NextVirtual ==
    \/ \E v \in Views : Construct(v)
    \/ \E v \in Views : Read(v)
    \/ \E v \in Views : Materialize(v)
    \/ \E v \in Views : Write(v)
    \/ \E v \in Views : SetCache(v)
    \/ \E v \in Views : SetPersistentKey(v)
    \/ \E v \in Views : Destroy(v)
    \/ Evict

(***************************************************************************)
(*                    numpy one-dimensional arrays                         *)
(*                                                                         *)
(* An array is a sequence; Python's positions start at 0 and a negative    *)
(* position counts from the end.                                           *)
(***************************************************************************)

Norm(i, n) == IF i < 0 THEN i + n ELSE i

\* a[i] for one integer i
At(a, i) == a[Norm(i, Len(a)) + 1]

\* The selectors `where`: an integer, a slice lo:hi, a list of positions.
IntSel(p) == [kind |-> "int", p |-> p, lo |-> 0, hi |-> 0, ps |-> <<>>, name |-> ""]
SliceSel(lo, hi) == [kind |-> "slice", p |-> 0, lo |-> lo, hi |-> hi, ps |-> <<>>, name |-> ""]
ListSel(ps) == [kind |-> "list", p |-> 0, lo |-> 0, hi |-> 0, ps |-> ps, name |-> ""]
StrSel(name) == [kind |-> "str", p |-> 0, lo |-> 0, hi |-> 0, ps |-> <<>>, name |-> name]
NoSel == [kind |-> "", p |-> 0, lo |-> 0, hi |-> 0, ps |-> <<>>, name |-> ""]

\* The positions (from 0) of an array of length n that `where` selects, in order.
Positions(where, n) ==
    CASE where.kind = "int" -> <<Norm(where.p, n)>>
      [] where.kind = "slice" -> [j \in 1..(where.hi - where.lo) |-> where.lo + j - 1]
      [] where.kind = "list" -> [j \in 1..Len(where.ps) |-> Norm(where.ps[j], n)]

\* a[idx] for an integer array idx
Gather(a, idx) == [j \in 1..Len(idx) |-> At(a, idx[j])]

\* a[mask] for a boolean array mask of a's length
Compress(a, mask) ==
    LET F[j \in 0..Len(a)] ==
            IF j = 0 THEN <<>>
            ELSE IF mask[j] THEN Append(F[j - 1], a[j]) ELSE F[j - 1]
    IN  F[Len(a)]

\* a[idx] = v for an integer array idx and one value v
Fill(a, idx, v) ==
    [k \in 1..Len(a) |->
        IF \E j \in 1..Len(idx) : Norm(idx[j], Len(a)) + 1 = k THEN v ELSE a[k]]

\* a[idx] = vals for integer array idx and as many values: assigned in order,
\* so that the last assignment to a repeated position stays.
Scatter(a, idx, vals) ==
    LET F[j \in 0..Len(idx)] ==
            IF j = 0 THEN a
            ELSE [F[j - 1] EXCEPT ![Norm(idx[j], Len(a)) + 1] = vals[j]]
    IN  F[Len(idx)]

LogicalNot(mask) == [j \in 1..Len(mask) |-> ~mask[j]]

\* The selectors the model applies to an array of length n.
IntSels(n) == {IntSel(p) : p \in (0 - n)..(n - 1)}
\* every non-empty slice, and one empty slice
SliceSels(n) ==
    {w \in {SliceSel(lo, hi) : lo \in 0..n, hi \in 0..n} :
        w.lo < w.hi \/ (w.lo = 0 /\ w.hi = 0)}
ListSels(n) ==
    IF n = 0 THEN {}
    ELSE {ListSel([j \in 1..n |-> n - j]), ListSel(<<n - 1, n - 1>>), ListSel(<<0>>)}
Sels(n) == IntSels(n) \cup SliceSels(n) \cup ListSels(n)

\* A content array is a structured array with the one field ColumnNames
\* names; an element is written as its value of that field. content[name] is
\* then the plain array of those values, which has no field.
ColumnNames == {"x"}
NoColumns == {}

\* The column names a caller asks for: the content's field, and no field of it.
StrSels == {StrSel("x"), StrSel("y")}

(***************************************************************************)
(*                           IndexedMaskedArray                            *)
(***************************************************************************)

\* The length of the index array.
MaxLen == 2

\* The content array the view is built over.
InitContent == <<10, 20>>

\* numpy.ma.masked, as an element of a sequence of values.
MaskedConstant == -1000

\* The values written: a scalar, and the j-th element of a sequence.
ScalarValue == 7
Elem(j) == 70 + j

\* The operands `what` of a write.
MaskedWhat == [kind |-> "masked", val |-> MaskedConstant, elems |-> <<>>,
               index |-> <<>>, maskedwhen |-> 0]
ScalarWhat(x) == [kind |-> "scalar", val |-> x, elems |-> <<>>,
                  index |-> <<>>, maskedwhen |-> 0]
\* a Python list (a collections.Sequence), whose elements may be numpy.ma.masked
ListWhat(xs) == [kind |-> "list", val |-> 0, elems |-> xs,
                 index |-> <<>>, maskedwhen |-> 0]
\* a numpy.ndarray, which carries no markers
ArrayWhat(xs) == [kind |-> "ndarray", val |-> 0, elems |-> xs,
                  index |-> <<>>, maskedwhen |-> 0]
\* another IndexedMaskedArray, with its own index, content and sentinel
MaskedArrayWhat(idx, content, m) == [kind |-> "ima", val |-> 0, elems |-> content,
                                     index |-> idx, maskedwhen |-> m]
NoWhat == [kind |-> "", val |-> 0, elems |-> <<>>, index |-> <<>>, maskedwhen |-> 0]

\* The operands the model writes. A list of k elements with the elements at S
\* masked; an array of k elements; a source of k positions, those at S masked
\* and the others mapped to its content in reverse order.
ListWhats ==
    {ListWhat([j \in 1..k |-> IF j \in S THEN MaskedConstant ELSE Elem(j)]) :
        k \in 1..MaxLen, S \in SUBSET (1..MaxLen)}
ArrayWhats == {ArrayWhat([j \in 1..k |-> Elem(j)]) : k \in 0..MaxLen}
SourceWhats ==
    {MaskedArrayWhat([j \in 1..k |-> IF j \in S THEN -1 ELSE k - j],
                     [j \in 1..MaxLen |-> Elem(j)], -1) :
        k \in 1..MaxLen, S \in SUBSET (1..MaxLen)}
Whats == {MaskedWhat, ScalarWhat(ScalarValue)} \cup ListWhats \cup ArrayWhats \cup SourceWhats

\* __getitem__ testing the index against the default sentinel, not the view's.
MGetitemIntMutant(index, content, maskedwhen, head) ==
    IF At(index, head) = -1
    THEN MaskedConstant
    ELSE At(content, At(index, head))

\* IndexedMaskedArray.__getitem__ at one integer position of a view
\* (index, content, maskedwhen): numpy.ma.masked or the content's element.
MGetitemInt(index, content, maskedwhen, head) ==
    IF At(index, head) = maskedwhen
    THEN MaskedConstant
    ELSE At(content, At(index, head))

NoView ==
    [index |-> <<>>, content |-> <<>>, columns |-> NoColumns, maskedwhen |-> 0,
     writeable |-> FALSE]

NoRet == [kind |-> "", val |-> 0, view |-> NoView]

\* IndexedMaskedArray.__getitem__(where): the error raised ("none" for none)
\* and the value returned. A column name gives a new view over the same index
\* and content[where]; an integer a scalar (or numpy.ma.masked); a slice or a
\* list a new view over index[where].
MGetitem(index, content, maskedwhen, writeable, where) ==
    IF where.kind = "str"
    THEN IF where.name \notin ColumnNames THEN [err |-> "no-field", ret |-> NoRet]
         ELSE [err |-> "none",
               ret |-> [kind |-> "view", val |-> 0,
                        view |-> [index |-> index, content |-> content,
                                  columns |-> NoColumns,
                                  maskedwhen |-> maskedwhen, writeable |-> writeable]]]
    ELSE IF where.kind = "int"
    THEN [err |-> "none",
          ret |-> [kind |-> "scalar",
                   val |-> MGetitemInt(index, content, maskedwhen, where.p),
                   view |-> NoView]]
    ELSE [err |-> "none",
          ret |-> [kind |-> "view", val |-> 0,
                   view |-> [index |-> Gather(index, Positions(where, Len(index))),
                             content |-> content, columns |-> ColumnNames,
                             maskedwhen |-> maskedwhen, writeable |-> writeable]]]

\* len(what) and what[0] for a sequence, an array or an IndexedMaskedArray
WhatLen(what) == IF what.kind = "ima" THEN Len(what.index) ELSE Len(what.elems)
WhatFirst(what) ==
    IF what.kind = "ima"
    THEN MGetitemInt(what.index, what.elems, what.maskedwhen, 0)
    ELSE what.elems[1]

\* IndexedMaskedArray.__setitem__(where, what) for a positional where: the
\* error raised ("none" for none) and the index and content arrays afterwards.
MSetitem(index, content, maskedwhen, writeable, where, what) ==
    LET pos == Positions(where, Len(index))
        done(i, c) == [err |-> "none", index |-> i, content |-> c]
        fail(e, i) == [err |-> e, index |-> i, content |-> content]
        \* self._index[head] = self._maskedwhen
        maskall == Fill(index, pos, maskedwhen)
        \* self._index[head][boolmask] = self._maskedwhen
        \* self._content[self._index[head][notboolmask]] = rhs
        \* self._index[head] is a view of _index for a slice, a copy of the
        \* selected elements for a list of positions, a numpy scalar for an integer.
        split(boolmask, rhs, rhsok) ==
            IF where.kind = "int" THEN fail("TypeError", index)
            ELSE IF Len(boolmask) # Len(pos) THEN fail("IndexError", index)
            ELSE LET marked ==
                         [k \in 1..Len(index) |->
                             IF \E j \in 1..Len(pos) : pos[j] + 1 = k /\ boolmask[j]
                             THEN maskedwhen ELSE index[k]]
                     index1 == IF where.kind = "slice" THEN marked ELSE index
                     targets == Compress(Gather(index1, pos), LogicalNot(boolmask))
                 IN  IF ~rhsok THEN fail("IndexError", index1)
                     ELSE done(index1, Scatter(content, targets, rhs))
    IN  \* line 229 reads the local `head` before line 238 assigns it
        IF where.kind = "str" THEN fail("UnboundLocalError", index)
        ELSE IF ~writeable THEN fail("read-only", index)
        ELSE IF \/ what.kind = "masked"
                \/ /\ what.kind = "list" /\ Len(what.elems) = 1
                   /\ what.elems[1] = MaskedConstant
        THEN done(maskall, content)
        ELSE IF what.kind \in {"list", "ndarray", "ima"} /\ WhatLen(what) = 1
        THEN IF WhatFirst(what) = MaskedConstant
             THEN done(maskall, content)
             ELSE done(index, Fill(content, Gather(index, pos), WhatFirst(what)))
        ELSE IF what.kind = "ima"
        THEN LET boolmask == [j \in 1..Len(what.index) |-> what.index[j] = what.maskedwhen]
             IN  split(boolmask,
                       IF Len(what.elems) = Len(boolmask)
                       THEN Compress(what.elems, LogicalNot(boolmask)) ELSE <<>>,
                       Len(what.elems) = Len(boolmask))
        ELSE IF what.kind = "list"
        THEN LET boolmask == [j \in 1..Len(what.elems) |-> what.elems[j] = MaskedConstant]
             IN  split(boolmask, Compress(what.elems, LogicalNot(boolmask)), TRUE)
        ELSE IF what.kind = "ndarray"
        THEN IF where.kind = "int" THEN fail("ValueError", index)
             ELSE IF Len(what.elems) # Len(pos) THEN fail("IndexError", index)
             ELSE LET idx == Gather(index, pos)
                      only == [j \in 1..Len(idx) |-> idx[j] # maskedwhen]
                  IN  done(index, Scatter(content, Compress(idx, only),
                                          Compress(what.elems, only)))
        ELSE done(index, Fill(content, Gather(index, pos), what.val))

\* A value given to an index (or tags) setter, as _toarray leaves it: its
\* number of dimensions, whether its dtype is an integer type, its elements.
IndexValue(xs) == [ndim |-> 1, integer |-> TRUE, elems |-> xs]
\* values the setter refuses, and the empty array of floats it accepts
FloatIndexValue(xs) == [ndim |-> 1, integer |-> FALSE, elems |-> xs]
TwoDimIndexValue == [ndim |-> 2, integer |-> TRUE, elems |-> <<>>]
OddIndexValues == {FloatIndexValue(<<0>>), FloatIndexValue(<<>>), TwoDimIndexValue}

\* The index setter: the error raised ("none" for none) and the index
\* afterwards. An empty array is viewed as INDEXTYPE whatever its dtype.
SetIndex(index, value) ==
    IF value.ndim # 1 THEN [err |-> "TypeError", index |-> index]
    ELSE IF Len(value.elems) # 0 /\ ~value.integer
    THEN [err |-> "TypeError", index |-> index]
    ELSE [err |-> "none", index |-> value.elems]

\* The content arrays a caller assigns: as long as the first one, so that
\* the positions of an index stay inside.
OtherContent == <<30, 40>>
ContentValues == {InitContent, OtherContent}

\* A value given to the maskedwhen setter: whether it is an integer, and which.
MaskedwhenValues ==
    {[integral |-> TRUE, val |-> m] : m \in {0 - 1, 0}} \cup {[integral |-> FALSE, val |-> 0]}

\* The maskedwhen setter: the error raised ("none" for none) and the sentinel
\* afterwards.
SetMaskedwhen(maskedwhen, value) ==
    IF ~value.integral THEN [err |-> "TypeError", maskedwhen |-> maskedwhen]
    ELSE [err |-> "none", maskedwhen |-> value.val]

\* mlast while no call is being made. Calls are made one at a time: a call is
\* made, its arguments and outcome are in mlast, and the caller returns.
MIdle == [op |-> "idle", where |-> NoSel, what |-> NoWhat, err |-> "none", ret |-> NoRet]

InitMasked ==
    /\ mindex \in [1..MaxLen -> {-1} \cup (0..(Len(InitContent) - 1))]
    /\ mcontent = InitContent
    /\ mmaskedwhen \in {-1, 0}
    /\ mwriteable \in BOOLEAN
    /\ mlast = MIdle

IdleMasked ==
    /\ mindex = <<>>
    /\ mcontent = <<>>
    /\ mmaskedwhen = -1
    /\ mwriteable = FALSE
    /\ mlast = MIdle

\* A read: IndexedMaskedArray.__getitem__(where), by position or by column name.
MRead ==
    /\ mlast = MIdle
    /\ \E where \in Sels(Len(mindex)) \cup StrSels :
          LET r == MGetitem(mindex, mcontent, mmaskedwhen, mwriteable, where)
          IN  mlast' = [op |-> "get", where |-> where, what |-> NoWhat,
                        err |-> r.err, ret |-> r.ret]
    /\ UNCHANGED <<mindex, mcontent, mmaskedwhen, mwriteable>>
    /\ UNCHANGED notMasked

\* A write: IndexedMaskedArray.__setitem__(where, what), by position or by
\* column name.
MWrite ==
    /\ mlast = MIdle
    /\ \E where \in Sels(Len(mindex)) \cup StrSels, what \in Whats :
          LET r == MSetitem(mindex, mcontent, mmaskedwhen, mwriteable, where, what)
          IN  /\ mindex' = r.index
              /\ mcontent' = r.content
              /\ mlast' = [op |-> "set", where |-> where, what |-> what,
                           err |-> r.err, ret |-> NoRet]
    /\ UNCHANGED <<mmaskedwhen, mwriteable>>
    /\ UNCHANGED notMasked

\* index = value (the setter IndexedMaskedArray inherits)
MSetIndex ==
    /\ mlast = MIdle
    /\ \E value \in {IndexValue(xs) : xs \in [1..MaxLen -> (0 - 1)..(Len(InitContent) - 1)]}
                      \cup OddIndexValues :
          mindex' = SetIndex(mindex, value).index
    /\ UNCHANGED <<mcontent, mmaskedwhen, mwriteable, mlast>>
    /\ UNCHANGED notMasked

\* content = value (inherited)
MSetContent ==
    /\ mlast = MIdle
    /\ \E value \in ContentValues : mcontent' = value
    /\ UNCHANGED <<mindex, mmaskedwhen, mwriteable, mlast>>
    /\ UNCHANGED notMasked

\* maskedwhen = value
MSetMaskedwhen ==
    /\ mlast = MIdle
    /\ \E value \in MaskedwhenValues :
          mmaskedwhen' = SetMaskedwhen(mmaskedwhen, value).maskedwhen
    /\ UNCHANGED <<mindex, mcontent, mwriteable, mlast>>
    /\ UNCHANGED notMasked

\* writeable = value (inherited)
MSetWriteable ==
    /\ mlast = MIdle
    /\ \E value \in BOOLEAN : mwriteable' = value
    /\ UNCHANGED <<mindex, mcontent, mmaskedwhen, mlast>>
    /\ UNCHANGED notMasked

\* The caller has the outcome of its call and goes on.
MReturn ==
    /\ mlast # MIdle
    /\ mlast' = MIdle
    /\ UNCHANGED <<mindex, mcontent, mmaskedwhen, mwriteable>>
    /\ UNCHANGED notMasked

NextMasked ==
    \/ MRead
    \/ MWrite
    \/ MSetIndex
    \/ MSetContent
    \/ MSetMaskedwhen
    \/ MSetWriteable
    \/ MReturn

(***************************************************************************)
(*                               UnionArray                                *)
(***************************************************************************)

\* The content arrays the view is built over.
InitContents == << <<10, 20>>, <<30>> >>

\* The operands of a write: a scalar, a list, an array.
UWhats ==
    {ScalarWhat(ScalarValue)}
        \cup {ListWhat([j \in 1..k |-> Elem(j)]) : k \in 0..MaxLen}
        \cup {ArrayWhat([j \in 1..k |-> Elem(j)]) : k \in 0..MaxLen}

NoUnion == [tags |-> <<>>, index |-> <<>>, contents |-> <<>>, writeable |-> FALSE]
UNoRet == [kind |-> "", val |-> 0, arr |-> <<>>, view |-> NoUnion]
UFail(e) == [err |-> e, ret |-> UNoRet]

\* numpy.unique(tags), as the set of the values of tags
Uniques(tags) == {tags[j] : j \in 1..Len(tags)}

\* Every value of idx is a position of an array of n elements; content[idx]
\* is an IndexError otherwise.
InRange(idx, n) == \A j \in 1..Len(idx) : 0 - n <= idx[j] /\ idx[j] < n

\* tuple(x[where] for x in self._contents) followed by the constructor call
\* with writeable=writeable: whichever fails first.
UColumn(where) ==
    IF where.name \notin ColumnNames THEN "no-field" ELSE "NameError"

\* __getitem__ taking the first selected tag's content whatever the other tags.
UGetitemMutant(tags, index, contents, writeable, where) ==
    IF where.kind = "str" THEN UFail(UColumn(where))
    ELSE IF Len(tags) # Len(index) THEN UFail("tags-index-shape")
    ELSE LET pos == Positions(where, Len(tags))
             t == Gather(tags, pos)
             i == Gather(index, pos)
         IN  IF Len(t) >= 1
             THEN LET content == contents[t[1] + 1]
                  IN  IF ~InRange(i, Len(content)) THEN UFail("IndexError")
                      ELSE IF where.kind = "int"
                      THEN [err |-> "none",
                            ret |-> [kind |-> "scalar", val |-> At(content, i[1]),
                                     arr |-> <<>>, view |-> NoUnion]]
                      ELSE [err |-> "none",
                            ret |-> [kind |-> "array", val |-> 0,
                                     arr |-> Gather(content, i), view |-> NoUnion]]
             ELSE [err |-> "none",
                   ret |-> [kind |-> "union", val |-> 0, arr |-> <<>>,
                            view |-> [tags |-> t, index |-> i, contents |-> contents,
                                      writeable |-> writeable]]]

\* UnionArray.__getitem__(where): the error raised ("none" for none) and the
\* value returned: a scalar, an array, or a new UnionArray.
UGetitem(tags, index, contents, writeable, where) ==
    IF where.kind = "str" THEN UFail(UColumn(where))
    ELSE IF Len(tags) # Len(index) THEN UFail("tags-index-shape")
    ELSE LET pos == Positions(where, Len(tags))
             t == Gather(tags, pos)
             i == Gather(index, pos)
             uniques == Uniques(t)
         IN  IF Cardinality(uniques) = 1
             THEN LET content == contents[(CHOOSE v \in uniques : TRUE) + 1]
                  IN  IF ~InRange(i, Len(content)) THEN UFail("IndexError")
                      ELSE IF where.kind = "int"
                      THEN [err |-> "none",
                            ret |-> [kind |-> "scalar", val |-> At(content, i[1]),
                                     arr |-> <<>>, view |-> NoUnion]]
                      ELSE [err |-> "none",
                            ret |-> [kind |-> "array", val |-> 0,
                                     arr |-> Gather(content, i), view |-> NoUnion]]
             ELSE [err |-> "none",
                   ret |-> [kind |-> "union", val |-> 0, arr |-> <<>>,
                            view |-> [tags |-> t, index |-> i, contents |-> contents,
                                      writeable |-> writeable]]]

\* The loops `for i, tag in enumerate(uniques)` of __setitem__, the tags
\* taken in ascending order: each content array gets, at the index values of
\* the positions with its tag, one value (every = TRUE) or those positions'
\* elements of vals. An index value outside its content array is an
\* IndexError there: the arrays of the tags before it are already written,
\* that array and those after it are not. Gives the error ("none" for none)
\* and the content arrays afterwards.
URoute(contents, t, i, vals, every) ==
    LET F[c \in 0..Len(contents)] ==
            IF c = 0 THEN [err |-> "none", contents |-> contents]
            ELSE LET prev == F[c - 1]
                     selection == [j \in 1..Len(t) |-> t[j] = c - 1]
                     idx == Compress(i, selection)
                 IN  IF prev.err # "none" \/ c - 1 \notin Uniques(t) THEN prev
                     ELSE IF ~InRange(idx, Len(contents[c]))
                     THEN [err |-> "IndexError", contents |-> prev.contents]
                     ELSE [err |-> "none",
                           contents |->
                               [prev.contents EXCEPT ![c] =
                                   IF every THEN Fill(contents[c], idx, vals[1])
                                   ELSE Scatter(contents[c], idx,
                                                Compress(vals, selection))]]
    IN  F[Len(contents)]

\* __setitem__ without the length check: the elements there are get assigned.
USetitemMutant(tags, index, contents, writeable, where, what, inverse0d) ==
    LET fail(e) == [err |-> e, contents |-> contents]
        pos == Positions(where, Len(tags))
        t == Gather(tags, pos)
        i == Gather(index, pos)
        k == IF Len(what.elems) < Len(t) THEN Len(what.elems) ELSE Len(t)
    IN  IF where.kind = "str" THEN fail(UColumn(where))
        ELSE IF ~writeable THEN fail("read-only")
        ELSE IF Len(tags) # Len(index) THEN fail("tags-index-shape")
        ELSE IF what.kind \in {"list", "ndarray"}
        THEN URoute(contents, SubSeq(t, 1, k), SubSeq(i, 1, k),
                    SubSeq(what.elems, 1, k), FALSE)
        ELSE URoute(contents, t, i, <<what.val>>, TRUE)

\* UnionArray.__setitem__(where, what): the error raised ("none" for none) and
\* the content arrays afterwards (URoute makes the assignments, and gives the
\* IndexError of an index value outside its content array). For an integer
\* position tags and index are
\* numpy scalars: len(tags) raises, and index[selection] raises unless
\* numpy.unique gives the inverse of a 0-d input no dimension (inverse0d), as
\* numpy 2 does and numpy 1 does not.
USetitem(tags, index, contents, writeable, where, what, inverse0d) ==
    LET fail(e) == [err |-> e, contents |-> contents]
        pos == Positions(where, Len(tags))
        t == Gather(tags, pos)
        i == Gather(index, pos)
    IN  IF where.kind = "str" THEN fail(UColumn(where))
        ELSE IF ~writeable THEN fail("read-only")
        ELSE IF Len(tags) # Len(index) THEN fail("tags-index-shape")
        ELSE IF what.kind \in {"list", "ndarray"} /\ Len(what.elems) = 1
        THEN IF where.kind = "int" /\ ~inverse0d THEN fail("IndexError")
             ELSE URoute(contents, t, i, what.elems, TRUE)
        ELSE IF what.kind \in {"list", "ndarray"}
        THEN IF where.kind = "int" THEN fail("TypeError")
             ELSE IF Len(what.elems) # Len(t) THEN fail("length-mismatch")
             ELSE URoute(contents, t, i, what.elems, FALSE)
        ELSE IF where.kind = "int" /\ ~inverse0d THEN fail("IndexError")
             ELSE URoute(contents, t, i, <<what.val>>, TRUE)

\* The tags setter: the error raised ("none" for none) and the tags afterwards.
SetTags(tags, value) ==
    IF value.ndim # 1 THEN [err |-> "TypeError", tags |-> tags]
    ELSE IF Len(value.elems) # 0 /\ ~value.integer
    THEN [err |-> "TypeError", tags |-> tags]
    ELSE [err |-> "none", tags |-> value.elems]

\* The tuples of content arrays a caller assigns: of the first tuple's lengths.
OtherContents == << <<40, 50>>, <<60>> >>
ContentsValues == {InitContents, OtherContents}

\* ulast while no call is being made.
UIdle == [op |-> "idle", where |-> NoSel, what |-> NoWhat, err |-> "none", ret |-> UNoRet]

\* A view over tags and index arrays of MaxLen positions, every index in the
\* range of the content its tag selects; or, with one index less than tags,
\* a view whose tags and index do not match in shape.
InitUnion ==
    /\ utags \in [1..MaxLen -> 0..(Len(InitContents) - 1)]
    /\ \E k \in {MaxLen - 1, MaxLen} :
          uindex \in {ix \in [1..k -> 0..1] :
                         \A j \in 1..k : ix[j] < Len(InitContents[utags[j] + 1])}
    /\ ucontents = InitContents
    /\ uwriteable \in BOOLEAN
    /\ ulast = UIdle

IdleUnion ==
    /\ utags = <<>>
    /\ uindex = <<>>
    /\ ucontents = <<>>
    /\ uwriteable = FALSE
    /\ ulast = UIdle

\* A read: UnionArray.__getitem__(where), by position or by column name.
URead ==
    /\ ulast = UIdle
    /\ \E where \in Sels(Len(utags)) \cup StrSels :
          LET r == UGetitem(utags, uindex, ucontents, uwriteable, where)
          IN  ulast' = [op |-> "get", where |-> where, what |-> NoWhat,
                        err |-> r.err, ret |-> r.ret]
    /\ UNCHANGED <<utags, uindex, ucontents, uwriteable>>
    /\ UNCHANGED notUnion

\* A write: UnionArray.__setitem__(where, what), by position or by column name.
UWrite ==
    /\ ulast = UIdle
    /\ \E where \in Sels(Len(utags)) \cup StrSels, what \in UWhats, inverse0d \in BOOLEAN :
          LET r == USetitem(utags, uindex, ucontents, uwriteable, where, what, inverse0d)
          IN  /\ ucontents' = r.contents
              /\ ulast' = [op |-> "set", where |-> where, what |-> what,
                           err |-> r.err, ret |-> UNoRet]
    /\ UNCHANGED <<utags, uindex, uwriteable>>
    /\ UNCHANGED notUnion

\* tags = value
USetTags ==
    /\ ulast = UIdle
    /\ \E value \in {IndexValue(t) : t \in [1..MaxLen -> 0..(Len(InitContents) - 1)]}
                      \cup OddIndexValues :
          utags' = SetTags(utags, value).tags
    /\ UNCHANGED <<uindex, ucontents, uwriteable, ulast>>
    /\ UNCHANGED notUnion

\* index = value
USetIndex ==
    /\ ulast = UIdle
    /\ \E k \in {MaxLen - 1, MaxLen} :
          \E value \in {IndexValue(ix) : ix \in [1..k -> 0..1]} \cup OddIndexValues :
              uindex' = SetIndex(uindex, value).index
    /\ UNCHANGED <<utags, ucontents, uwriteable, ulast>>
    /\ UNCHANGED notUnion

\* contents = value
USetContents ==
    /\ ulast = UIdle
    /\ \E value \in ContentsValues : ucontents' = value
    /\ UNCHANGED <<utags, uindex, uwriteable, ulast>>
    /\ UNCHANGED notUnion

\* writeable = value
USetWriteable ==
    /\ ulast = UIdle
    /\ \E value \in BOOLEAN : uwriteable' = value
    /\ UNCHANGED <<utags, uindex, ucontents, ulast>>
    /\ UNCHANGED notUnion

\* The caller has the outcome of its call and goes on.
UReturn ==
    /\ ulast # UIdle
    /\ ulast' = UIdle
    /\ UNCHANGED <<utags, uindex, ucontents, uwriteable>>
    /\ UNCHANGED notUnion

NextUnion ==
    \/ URead
    \/ UWrite
    \/ USetTags
    \/ USetIndex
    \/ USetContents
    \/ USetWriteable
    \/ UReturn

(***************************************************************************)
(*                              IndexedArray                               *)
(***************************************************************************)

\* The operands of a write: the missing marker, a scalar, a list, an array.
IWhats == {MaskedWhat} \cup UWhats

INoView == [index |-> <<>>, content |-> <<>>, columns |-> NoColumns, writeable |-> FALSE]
INoRet == [kind |-> "", val |-> 0, arr |-> <<>>, view |-> INoView]

\* IndexedArray.__getitem__(where): the error raised ("none" for none) and the
\* value returned. A column name gives a new view over the same index and
\* content[where]; a position gives content[index[where]].
IGetitem(index, content, writeable, where) ==
    IF where.kind = "str"
    THEN IF where.name \notin ColumnNames THEN [err |-> "no-field", ret |-> INoRet]
         ELSE [err |-> "none",
               ret |-> [kind |-> "view", val |-> 0, arr |-> <<>>,
                        view |-> [index |-> index, content |-> content,
                                  columns |-> NoColumns, writeable |-> writeable]]]
    ELSE IF where.kind = "int"
    THEN [err |-> "none",
          ret |-> [kind |-> "scalar", val |-> At(content, At(index, where.p)),
                   arr |-> <<>>, view |-> INoView]]
    ELSE [err |-> "none",
          ret |-> [kind |-> "array", val |-> 0,
                   arr |-> Gather(content, Gather(index, Positions(where, Len(index)))),
                   view |-> INoView]]

\* numpy's content[index[where]] = what for a positional where. At an integer
\* position one element is set: a Python list of any length is a ValueError
\* (setting an array element with a sequence), an ndarray is converted when it
\* has exactly one element. At a slice or a list of positions a sequence of
\* one element is broadcast and a sequence of another length than the targets
\* is a ValueError. The missing marker either raises or is stored as zero
\* (maskedzero), as numpy converts it.
IAssign(index, content, where, what, maskedzero) ==
    LET idx == Gather(index, Positions(where, Len(index)))
        fail(e) == [err |-> e, content |-> content]
        done(c) == [err |-> "none", content |-> c]
    IN  IF what.kind = "masked"
        THEN IF maskedzero THEN done(Fill(content, idx, 0)) ELSE fail("MaskError")
        ELSE IF what.kind = "scalar" THEN done(Fill(content, idx, what.val))
        ELSE IF where.kind = "int"
        THEN IF what.kind = "ndarray" /\ Len(what.elems) = 1
             THEN done(Fill(content, idx, what.elems[1]))
             ELSE fail("ValueError")
        ELSE IF Len(what.elems) = 1 THEN done(Fill(content, idx, what.elems[1]))
        ELSE IF Len(what.elems) # Len(idx) THEN fail("ValueError")
        ELSE done(Scatter(content, idx, what.elems))

\* __setitem__ without the writeable test.
ISetitemMutant(index, content, writeable, where, what, maskedzero) ==
    IF where.kind = "str"
    THEN IF where.name \notin ColumnNames THEN [err |-> "no-field", content |-> content]
         ELSE IF ~writeable THEN [err |-> "read-only", content |-> content]
         ELSE IAssign(index, content, SliceSel(0, Len(index)), what, maskedzero)
    ELSE IAssign(index, content, where, what, maskedzero)

\* IndexedArray.__setitem__(where, what): the error raised ("none" for none)
\* and the content afterwards. A column name writes [:] of the view over
\* content[where], which shares the content's memory.
ISetitem(index, content, writeable, where, what, maskedzero) ==
    IF where.kind = "str"
    THEN IF where.name \notin ColumnNames THEN [err |-> "no-field", content |-> content]
         ELSE IF ~writeable THEN [err |-> "read-only", content |-> content]
         ELSE IAssign(index, content, SliceSel(0, Len(index)), what, maskedzero)
    ELSE IF ~writeable THEN [err |-> "read-only", content |-> content]
    ELSE IAssign(index, content, where, what, maskedzero)

\* ilast while no call is being made.
IIdle == [op |-> "idle", where |-> NoSel, what |-> NoWhat, err |-> "none", ret |-> INoRet]

InitIndexed ==
    /\ iindex \in [1..MaxLen -> (0 - 1)..(Len(InitContent) - 1)]
    /\ icontent = InitContent
    /\ iwriteable \in BOOLEAN
    /\ ilast = IIdle

IdleIndexed ==
    /\ iindex = <<>>
    /\ icontent = <<>>
    /\ iwriteable = FALSE
    /\ ilast = IIdle

\* A read: IndexedArray.__getitem__(where), by position or by column name.
IRead ==
    /\ ilast = IIdle
    /\ \E where \in Sels(Len(iindex)) \cup StrSels :
          LET r == IGetitem(iindex, icontent, iwriteable, where)
          IN  ilast' = [op |-> "get", where |-> where, what |-> NoWhat,
                        err |-> r.err, ret |-> r.ret]
    /\ UNCHANGED <<iindex, icontent, iwriteable>>
    /\ UNCHANGED notIndexed

\* A write: IndexedArray.__setitem__(where, what), by position or by column name.
IWrite ==
    /\ ilast = IIdle
    /\ \E where \in Sels(Len(iindex)) \cup StrSels, what \in IWhats, maskedzero \in BOOLEAN :
          LET r == ISetitem(iindex, icontent, iwriteable, where, what, maskedzero)
          IN  /\ icontent' = r.content
              /\ ilast' = [op |-> "set", where |-> where, what |-> what,
                           err |-> r.err, ret |-> INoRet]
    /\ UNCHANGED <<iindex, iwriteable>>
    /\ UNCHANGED notIndexed

\* index = value
ISetIndex ==
    /\ ilast = IIdle
    /\ \E value \in {IndexValue(xs) : xs \in [1..MaxLen -> (0 - 1)..(Len(InitContent) - 1)]}
                      \cup OddIndexValues :
          iindex' = SetIndex(iindex, value).index
    /\ UNCHANGED <<icontent, iwriteable, ilast>>
    /\ UNCHANGED notIndexed

\* content = value
ISetContent ==
    /\ ilast = IIdle
    /\ \E value \in ContentValues : icontent' = value
    /\ UNCHANGED <<iindex, iwriteable, ilast>>
    /\ UNCHANGED notIndexed

\* writeable = value
ISetWriteable ==
    /\ ilast = IIdle
    /\ \E value \in BOOLEAN : iwriteable' = value
    /\ UNCHANGED <<iindex, icontent, ilast>>
    /\ UNCHANGED notIndexed

\* The caller has the outcome of its call and goes on.
IReturn ==
    /\ ilast # IIdle
    /\ ilast' = IIdle
    /\ UNCHANGED <<iindex, icontent, iwriteable>>
    /\ UNCHANGED notIndexed

NextIndexed == IRead \/ IWrite \/ ISetIndex \/ ISetContent \/ ISetWriteable \/ IReturn

(***************************************************************************)
(*                            ByteIndexedArray                             *)
(***************************************************************************)

\* A value of the dtype is written as its itemsize bytes, in buffer order.

\* The largest byte offset an index holds; the buffer is just long enough for
\* an item to start there.
MaxOffset == 2
ItemSizes == {1, 2, 4, 8}
\* How many offsets an index holds.
IndexLens == {0, 1, 5}

\* The buffers of n bytes a view is built over: all bytes distinct, high
\* bytes descending, and a repeating pattern.
Buffers(n) ==
    {[j \in 1..n |-> j], [j \in 1..n |-> 256 - j], [j \in 1..n |-> (j * j) % 3]}

\* numpy.frombuffer(content, dtype, count, offset): count items of itemsize
\* bytes from byte offset on; <<>> stands for the ValueError of a buffer too
\* small.
FromBuffer(content, itemsize, count, offset) ==
    IF offset + count * itemsize > Len(content) THEN <<>>
    ELSE [e \in 1..count |->
             SubSeq(content, offset + (e - 1) * itemsize + 1, offset + e * itemsize)]

\* contidx: for each start, the itemsize consecutive byte positions from it.
ContIdx(starts, itemsize) ==
    [m \in 1..(Len(starts) * itemsize) |->
        starts[((m - 1) \div itemsize) + 1] + ((m - 1) % itemsize)]

\* holdidx: for each item of hold, its itemsize byte positions in hold.
HoldIdx(n, itemsize) ==
    [m \in 1..(n * itemsize) |->
        ((m - 1) \div itemsize) * itemsize + ((m - 1) % itemsize)]

\* A byte of numpy.empty before anything is written to it.
Unwritten == -1

\* Every byte position of idx lies in the buffer; content[idx] is an
\* IndexError otherwise.
Inside(idx, content) == \A m \in 1..Len(idx) : idx[m] < Len(content)

BNoRet == [kind |-> "", val |-> <<>>, arr |-> <<>>]
BFail(e) == [err |-> e, ret |-> BNoRet]

\* __getitem__ reading the scalar from the aligned item: frombuffer without
\* its offset.
BGetitemMutant(index, content, itemsize, where) ==
    IF where.kind = "str" THEN BFail("IndexError")
    ELSE LET starts == Gather(index, Positions(where, Len(index)))
         IN  IF where.kind = "int"
             THEN LET pos == starts[1] \div itemsize
                      buf == FromBuffer(content, itemsize, pos + 1, 0)
                  IN  IF buf = <<>> THEN BFail("ValueError")
                      ELSE [err |-> "none",
                            ret |-> [kind |-> "scalar", val |-> buf[pos + 1], arr |-> <<>>]]
             ELSE IF ~Inside(ContIdx(starts, itemsize), content) THEN BFail("IndexError")
             ELSE LET n == Len(starts)
                      holdbytes == Scatter([m \in 1..(n * itemsize) |-> Unwritten],
                                           HoldIdx(n, itemsize),
                                           Gather(content, ContIdx(starts, itemsize)))
                  IN  [err |-> "none",
                       ret |-> [kind |-> "array", val |-> <<>>,
                                arr |-> FromBuffer(holdbytes, itemsize, n, 0)]]

\* ByteIndexedArray.__getitem__(where): the error raised ("none" for none)
\* and the value returned, one item or an array of items.
BGetitem(index, content, itemsize, where) ==
    IF where.kind = "str" THEN BFail("IndexError")
    ELSE LET starts == Gather(index, Positions(where, Len(index)))
         IN  IF where.kind = "int"
             THEN LET pos == starts[1] \div itemsize
                      offset == starts[1] % itemsize
                      buf == FromBuffer(content, itemsize, pos + 1, offset)
                  IN  IF buf = <<>> THEN BFail("ValueError")
                      ELSE [err |-> "none",
                            ret |-> [kind |-> "scalar", val |-> buf[pos + 1], arr |-> <<>>]]
             ELSE IF Len(starts) = 0
             THEN [err |-> "none", ret |-> [kind |-> "array", val |-> <<>>, arr |-> <<>>]]
             ELSE IF ~Inside(ContIdx(starts, itemsize), content) THEN BFail("IndexError")
             ELSE LET n == Len(starts)
                      holdbytes == Scatter([m \in 1..(n * itemsize) |-> Unwritten],
                                           HoldIdx(n, itemsize),
                                           Gather(content, ContIdx(starts, itemsize)))
                  IN  [err |-> "none",
                       ret |-> [kind |-> "array", val |-> <<>>,
                                arr |-> FromBuffer(holdbytes, itemsize, n, 0)]]

\* What is written: one item, or an array of items; an item is its itemsize
\* bytes.
ItemOf(b, itemsize) == [m \in 1..itemsize |-> b]
ScalarItem(item) == [kind |-> "scalar", items |-> <<item>>]
ArrayItems(items) == [kind |-> "ndarray", items |-> items]
BNoWhat == [kind |-> "", items |-> <<>>]

\* The bytes of an array of items, as numpy.frombuffer(hold, CHARTYPE) gives them.
Flatten(items, itemsize) ==
    [m \in 1..(Len(items) * itemsize) |->
        items[((m - 1) \div itemsize) + 1][((m - 1) % itemsize) + 1]]

\* ByteIndexedArray.__setitem__(where, what): the error raised ("none" for
\* none) and the buffer afterwards. One position: the item frombuffer places
\* at the offset is set. Several: hold[:] = what broadcasts one item or takes
\* as many items as positions, and the bytes of hold go to content[contidx],
\* in order. No position: nothing is done.
BSetitem(index, content, itemsize, writeable, where, what) ==
    LET fail(e) == [err |-> e, content |-> content]
        done(c) == [err |-> "none", content |-> c]
    IN  IF where.kind = "str" THEN fail("IndexError")
        ELSE IF ~writeable THEN fail("read-only")
        ELSE LET starts == Gather(index, Positions(where, Len(index)))
             IN  IF where.kind = "int"
                 THEN LET pos == starts[1] \div itemsize
                          offset == starts[1] % itemsize
                          buf == FromBuffer(content, itemsize, pos + 1, offset)
                      IN  IF buf = <<>> THEN fail("ValueError")
                          ELSE IF what.kind = "ndarray" /\ Len(what.items) # 1
                          THEN fail("ValueError")
                          ELSE done(Scatter(content, ContIdx(starts, itemsize),
                                            what.items[1]))
                 ELSE IF Len(starts) = 0 THEN done(content)
                 ELSE LET n == Len(starts)
                          hold == IF Len(what.items) = 1
                                  THEN [j \in 1..n |-> what.items[1]]
                                  ELSE what.items
                      IN  IF Len(what.items) \notin {1, n} THEN fail("ValueError")
                          ELSE IF ~Inside(ContIdx(starts, itemsize), content)
                          THEN fail("IndexError")
                          ELSE done(Scatter(content, ContIdx(starts, itemsize),
                                            Flatten(hold, itemsize)))

\* blast while no call is being made.
BIdle == [op |-> "idle", where |-> NoSel, what |-> BNoWhat, err |-> "none", ret |-> BNoRet]

\* A view of one of the item sizes over a buffer, its index 0, 1 or 5 byte
\* offsets at which an item lies within the buffer: aligned or not, repeated
\* or not, overlapping or not.
InitBytes ==
    /\ bitemsize \in ItemSizes
    /\ bcontent \in Buffers(MaxOffset + bitemsize)
    /\ \E k \in IndexLens : bindex \in [1..k -> 0..MaxOffset]
    /\ bwriteable \in BOOLEAN
    /\ blast = BIdle

IdleBytes ==
    /\ bindex = <<>>
    /\ bcontent = <<>>
    /\ bitemsize = 1
    /\ bwriteable = FALSE
    /\ blast = BIdle

\* A read: ByteIndexedArray.__getitem__(where), by position or by column name.
BRead ==
    /\ blast = BIdle
    /\ \E where \in Sels(Len(bindex)) \cup StrSels :
          LET r == BGetitem(bindex, bcontent, bitemsize, where)
          IN  blast' = [op |-> "get", where |-> where, what |-> BNoWhat,
                        err |-> r.err, ret |-> r.ret]
    /\ UNCHANGED <<bindex, bcontent, bitemsize, bwriteable>>
    /\ UNCHANGED notBytes

\* The caller has the outcome of its call and goes on.
BReturn ==
    /\ blast # BIdle
    /\ blast' = BIdle
    /\ UNCHANGED <<bindex, bcontent, bitemsize, bwriteable>>
    /\ UNCHANGED notBytes

\* What the model writes: an item of bytes 9, and arrays of up to
\* MaxWriteLen items, the j-th of bytes 20 + j.
MaxWriteLen == 2
BWhats(itemsize) ==
    {ScalarItem(ItemOf(9, itemsize))}
        \cup {ArrayItems([j \in 1..k |-> ItemOf(20 + j, itemsize)]) : k \in 0..MaxWriteLen}

\* A write: ByteIndexedArray.__setitem__(where, what), by position or by
\* column name.
BWrite ==
    /\ blast = BIdle
    /\ \E where \in Sels(Len(bindex)) \cup StrSels, what \in BWhats(bitemsize) :
          LET r == BSetitem(bindex, bcontent, bitemsize, bwriteable, where, what)
          IN  /\ bcontent' = r.content
              /\ blast' = [op |-> "set", where |-> where, what |-> what,
                           err |-> r.err, ret |-> BNoRet]
    /\ UNCHANGED <<bindex, bitemsize, bwriteable>>
    /\ UNCHANGED notBytes

\* The views the writes and the setters run on: an index of up to MaxWriteLen
\* byte offsets over a buffer of distinct bytes that holds a 2-byte item at
\* every offset, so that larger items reach past its end.
WriteBuffer == [j \in 1..(MaxOffset + 2) |-> j]
WriteIndexes == UNION {[1..k -> 0..MaxOffset] : k \in 0..MaxWriteLen}

\* index = value (the setter ByteIndexedArray inherits)
BSetIndex ==
    /\ blast = BIdle
    /\ \E value \in {IndexValue(xs) : xs \in WriteIndexes} \cup OddIndexValues :
          bindex' = SetIndex(bindex, value).index
    /\ UNCHANGED <<bcontent, bitemsize, bwriteable, blast>>
    /\ UNCHANGED notBytes

\* content = value: the value's bytes, and their writeable flag set
BSetContent ==
    /\ blast = BIdle
    /\ bcontent' = WriteBuffer
    /\ UNCHANGED <<bindex, bitemsize, bwriteable, blast>>
    /\ UNCHANGED notBytes

\* dtype = value
BSetDtype ==
    /\ blast = BIdle
    /\ \E value \in ItemSizes : bitemsize' = value
    /\ UNCHANGED <<bindex, bcontent, bwriteable, blast>>
    /\ UNCHANGED notBytes

\* writeable = value: the attribute and the buffer's flag
BSetWriteable ==
    /\ blast = BIdle
    /\ \E value \in BOOLEAN : bwriteable' = value
    /\ UNCHANGED <<bindex, bcontent, bitemsize, blast>>
    /\ UNCHANGED notBytes

InitBytesWrite ==
    /\ bitemsize \in ItemSizes
    /\ bcontent = WriteBuffer
    /\ bindex \in WriteIndexes
    /\ bwriteable \in BOOLEAN
    /\ blast = BIdle

\* The reads alone, and every operation.
NextBytesRead == BRead \/ BReturn
NextBytes ==
    \/ BRead
    \/ BWrite
    \/ BSetIndex
    \/ BSetContent
    \/ BSetDtype
    \/ BSetWriteable
    \/ BReturn

(***************************************************************************)
(*                           The specifications                            *)
(***************************************************************************)

IdleVirtual ==
    /\ valive = [v \in Views |-> FALSE]
    /\ vpkey = [v \in Views |-> {}]
    /\ vcache = [v \in Views |-> FALSE]
    /\ varray = [v \in Views |-> HoldsNothing]
    /\ vdtype = [v \in Views |-> {}]
    /\ vshape = [v \in Views |-> {}]
    /\ cache = <<>>
    /\ ncalls = [v \in Views |-> 0]
    /\ vlast = Other

\* Each specification is one class's view object, the objects of the other
\* classes left as they are.
InitSpecVirtual == InitVirtual /\ IdleMasked /\ IdleUnion /\ IdleBytes /\ IdleIndexed
InitSpecMasked == InitMasked /\ IdleVirtual /\ IdleUnion /\ IdleBytes /\ IdleIndexed
InitSpecUnion == InitUnion /\ IdleVirtual /\ IdleMasked /\ IdleBytes /\ IdleIndexed
InitSpecBytes == InitBytes /\ IdleVirtual /\ IdleMasked /\ IdleUnion /\ IdleIndexed
InitSpecIndexed == InitIndexed /\ IdleVirtual /\ IdleMasked /\ IdleUnion /\ IdleBytes

SpecVirtual == InitSpecVirtual /\ [][NextVirtual]_vars

SpecMasked == InitSpecMasked /\ [][NextMasked]_vars

SpecUnion == InitSpecUnion /\ [][NextUnion]_vars

SpecBytes == InitSpecBytes /\ [][NextBytesRead]_vars

\* ByteIndexedArray under every operation.
InitSpecBytesWrite == InitBytesWrite /\ IdleVirtual /\ IdleMasked /\ IdleUnion /\ IdleIndexed
SpecBytesWrite == InitSpecBytesWrite /\ [][NextBytes]_vars

SpecIndexed == InitSpecIndexed /\ [][NextIndexed]_vars

\* Two live views constructed with the same cache and no persistent key, read
\* and written in any order while the cache's owner evicts entries.
InitShared ==
    /\ valive = [v \in Views |-> TRUE]
    /\ vpkey = [v \in Views |-> {}]
    /\ vcache = [v \in Views |-> TRUE]
    /\ varray = [v \in Views |-> HoldsNothing]
    /\ \E d \in DeclaredDTypes : vdtype = [v \in Views |-> IF v = 1 THEN d ELSE {}]
    /\ \E s \in DeclaredShapes : vshape = [v \in Views |-> IF v = 1 THEN s ELSE {}]
    /\ cache = <<>>
    /\ ncalls = [v \in Views |-> 0]
    /\ vlast = Other

InitSpecShared == InitShared /\ IdleMasked /\ IdleUnion /\ IdleBytes /\ IdleIndexed

NextShared ==
    \/ \E v \in Views : Read(v)
    \/ \E v \in Views : Write(v)
    \/ Evict

SpecShared == InitSpecShared /\ [][NextShared]_vars

\* A program with one view, of any of the three index-based kinds: the
\* behaviours of SpecIndexed, SpecMasked and SpecUnion together.
InitSpecViews ==
    \/ InitIndexed /\ IdleVirtual /\ IdleMasked /\ IdleUnion /\ IdleBytes
    \/ InitMasked /\ IdleVirtual /\ IdleUnion /\ IdleBytes /\ IdleIndexed
    \/ InitUnion /\ IdleVirtual /\ IdleMasked /\ IdleBytes /\ IdleIndexed

NextViews ==
    \/ IdleMasked /\ IdleUnion /\ NextIndexed
    \/ IdleIndexed /\ IdleUnion /\ NextMasked
    \/ IdleIndexed /\ IdleMasked /\ NextUnion

SpecViews == InitSpecViews /\ [][NextViews]_vars

(***************************************************************************)
(*                        VirtualArray: the claims                         *)
(***************************************************************************)

\* The entry a read of view v would look up is not there: the view holds a key
\* and no cache is attached or the cache has no entry under that key.
HeldEntryAbsent(v) ==
    /\ varray[v].kind = "key"
    /\ ~vcache[v] \/ varray[v].k \notin DOMAIN cache

\* The generator's output passes the view's declared expectations.
Acceptable(v, out) ==
    /\ vdtype[v] = {} \/ vdtype[v] = {out.dtype}
    /\ vshape[v] = {} \/ vshape[v] = {out.shape}
    /\ out.shape # <<>>

\* C1: a read calls the generator exactly once when the view holds nothing or
\* the entry under its held key is absent, and not at all otherwise; and when
\* the generator's output is acceptable (or none was needed) the read returns
\* an array and raises nothing, whether or not the entry had been evicted.
C1_ReadCallsGenerator ==
    [][\A v \in Views :
          (vlast'.op = "read" /\ vlast'.view = v) =>
              LET n == IF varray[v].kind = "none" \/ HeldEntryAbsent(v) THEN 1 ELSE 0
              IN  /\ vlast'.calls = n
                  /\ ncalls'[v] = ncalls[v] + n
                  /\ (n = 0 \/ Acceptable(v, vlast'.out)) =>
                        (vlast'.err = "none" /\ vlast'.ret # NoArray)]_vars

\* C1 witness: a read of a view whose cache entry had been evicted has just
\* made the generator's second call and returned its array.
C1_Witness ==
    \E v \in Views :
        /\ vlast.op = "read" /\ vlast.view = v /\ vlast.calls = 1
        /\ vlast.err = "none"
        /\ vlast.ret = [owner |-> v, serial |-> 2]
        /\ vcache[v] /\ varray[v].kind = "key" /\ varray[v].k \in DOMAIN cache

\* C9: a write raises the read-only error, calls no generator and leaves what
\* every view holds and the cache as they were.
C9_WriteFails ==
    [][\A v \in Views :
          (vlast'.op = "write" /\ vlast'.view = v) =>
              /\ vlast'.err = "read-only"
              /\ vlast'.calls = 0
              /\ ncalls' = ncalls
              /\ varray' = varray
              /\ cache' = cache]_vars

\* C9 witness: a write has just failed on a view whose cache entry was evicted.
C9_Witness ==
    \E v \in Views :
        /\ vlast.op = "write" /\ vlast.view = v /\ vlast.err = "read-only"
        /\ vcache[v] /\ varray[v].kind = "key" /\ varray[v].k \notin DOMAIN cache

\* C10: when a view is destroyed, a view with no persistent key and a cache
\* attached leaves no entry under its transient key in the cache, and every
\* entry under a persistent key stays as it was.
C10_DestroyRemovesTransientKey ==
    [][\A v \in Views :
          (vlast'.op = "del" /\ vlast'.view = v) =>
              /\ (vpkey[v] = {} /\ vcache[v]) => TransientKey(v) \notin DOMAIN cache'
              /\ \A k \in DOMAIN cache :
                    k.kind = "persistent" => (k \in DOMAIN cache' /\ cache'[k] = cache[k])]_vars

\* C11: when the generator's output differs from the dtype or the shape the
\* view declares, or has no dimensions, materialize (called by a read or
\* directly) raises an error and stores nothing: what every view holds and
\* the cache are as they were, on a first access and on a re-materialization
\* after an eviction.
C11_FailedMaterializeStoresNothing ==
    [][\A v \in Views :
          (/\ vlast'.op \in {"read", "materialize"} /\ vlast'.view = v
           /\ vlast'.calls = 1
           /\ ~Acceptable(v, vlast'.out)) =>
              /\ vlast'.err \in {"dtype", "shape", "scalar"}
              /\ vlast'.ret = NoArray
              /\ varray' = varray
              /\ cache' = cache]_vars

\* C11 witness: after its cache entry was evicted, a view's second generator
\* call gave an array of another shape than declared; the read failed and the
\* view holds its key, still without an entry.
C11_Witness ==
    /\ vlast.op = "read" /\ vlast.view = 1 /\ vlast.err = "shape"
    /\ ncalls[1] = 2
    /\ vcache[1] /\ varray[1].kind = "key" /\ varray[1].k \notin DOMAIN cache


\* C15: with two live views on one cache and no persistent key, under every
\* interleaving of reads and evictions, the views store under distinct keys
\* (every entry of the cache is under the key of the view whose generator
\* made it), and a read returns the array that the latest call of the read
\* view's own generator produced.
C15_SharedCacheKeepsViewsApart ==
    /\ key(1) # key(2)
    /\ \A v \in Views : varray[v].kind = "key" => varray[v].k = TransientKey(v)
    /\ \A k \in DOMAIN cache : \E v \in Views : k = TransientKey(v) /\ cache[k].owner = v
    /\ (vlast.op = "read" /\ vlast.err = "none") =>
          vlast.ret = [owner |-> vlast.view, serial |-> ncalls[vlast.view]]

\* C15 witness: both views had stored their arrays in the cache, the second
\* view's entry was evicted, and a read of the second view, still holding
\* its key, called its own generator again and returned that call's array
\* while the first view's array was in the cache.
C15_Witness ==
    /\ vlast.op = "read" /\ vlast.view = 2 /\ vlast.calls = 1
    /\ vlast.err = "none"
    /\ vlast.held = HoldsKey(TransientKey(2))
    /\ vlast.ret = [owner |-> 2, serial |-> 2]
    /\ DOMAIN cache = {TransientKey(1), TransientKey(2)}
    /\ cache[TransientKey(1)] = [owner |-> 1, serial |-> 1]

(***************************************************************************)
(*                     IndexedMaskedArray: the claims                      *)
(***************************************************************************)

\* C2: a read at one integer position returns the missing value exactly when
\* the index at that position is the sentinel, and the content's element at
\* that index otherwise.
C2_ReadMissingIffSentinel ==
    (mlast.op = "get" /\ mlast.where.kind = "int") =>
        LET p == IF mlast.where.p < 0 THEN mlast.where.p + Len(mindex) ELSE mlast.where.p
            i == mindex[p + 1]
            c == IF i < 0 THEN i + Len(mcontent) ELSE i
        IN  /\ mlast.err = "none"
            /\ mlast.ret.kind = "scalar"
            /\ (mlast.ret.val = MaskedConstant) <=> (i = mmaskedwhen)
            /\ i # mmaskedwhen => mlast.ret.val = mcontent[c + 1]

\* C2 witness: after writes, one read returns an element that a sequence write
\* stored, through an index that the view's sentinel (0) leaves valid.
C2_Witness ==
    /\ mlast.op = "get" /\ mlast.where.kind = "int"
    /\ mmaskedwhen = 0
    /\ mlast.ret.val = Elem(2)
    /\ \E k \in 1..Len(mindex) : mindex[k] = 0

\* The positions a write targets, and whether they are distinct.
Targets(where) == Positions(where, Len(mindex))
Distinct(seq) == \A j, k \in 1..Len(seq) : seq[j] = seq[k] => j = k

\* C5: a write of a markerless array with one element per targeted position
\* leaves the index array as it was, so that masked positions still read
\* missing; sets the content slot of every targeted unmasked position to that
\* position's element (where several share a slot, to the element of one of
\* them); and changes no other content slot.
C5_MarkerlessArrayWrite ==
    [][(/\ mlast'.op = "set" /\ mwriteable
        /\ mlast'.where.kind # "str"
        /\ mlast'.what.kind = "ndarray"
        /\ Len(mlast'.what.elems) = Len(Targets(mlast'.where))) =>
          LET pos == Targets(mlast'.where)
              elems == mlast'.what.elems
              slot(j) == Norm(mindex[pos[j] + 1], Len(mcontent)) + 1
              hit(c) == {j \in 1..Len(pos) :
                            mindex[pos[j] + 1] # mmaskedwhen /\ slot(j) = c}
          IN  /\ mlast'.err = "none"
              /\ mindex' = mindex
              /\ \A j \in 1..Len(pos) :
                    mindex[pos[j] + 1] = mmaskedwhen =>
                        MGetitemInt(mindex', mcontent', mmaskedwhen, pos[j]) = MaskedConstant
              /\ \A c \in 1..Len(mcontent) :
                    IF hit(c) = {}
                    THEN mcontent'[c] = mcontent[c]
                    ELSE \E j \in hit(c) : mcontent'[c] = elems[j]]_vars

\* C6: a write at a slice or a list of (distinct) positions of another
\* IndexedMaskedArray of as many positions sets the index of every position
\* whose source element is missing to the sentinel, which then reads missing,
\* and makes every position that was not masked (and shares its content slot
\* with no other) and whose source element is present read what the source
\* reads there.
C6_NullableSourceWrite ==
    [][(/\ mlast'.op = "set" /\ mwriteable
        /\ mlast'.what.kind = "ima"
        /\ mlast'.where.kind \in {"slice", "list"}
        /\ Len(mlast'.what.index) = Len(Targets(mlast'.where))
        /\ Distinct(Targets(mlast'.where))
        /\ Distinct([k \in 1..Len(mindex) |-> Norm(mindex[k], Len(mcontent))])) =>
          LET pos == Targets(mlast'.where)
              src == mlast'.what
              missing(j) == src.index[j] = src.maskedwhen
          IN  \A j \in 1..Len(pos) :
                  /\ missing(j) =>
                        /\ mindex'[pos[j] + 1] = mmaskedwhen
                        /\ MGetitemInt(mindex', mcontent', mmaskedwhen, pos[j]) = MaskedConstant
                  /\ (~missing(j) /\ mindex[pos[j] + 1] # mmaskedwhen) =>
                        MGetitemInt(mindex', mcontent', mmaskedwhen, pos[j])
                          = MGetitemInt(src.index, src.elems, src.maskedwhen, j - 1)]_vars


\* C14: on a writeable view, a write of a real value (a scalar, or a list or
\* an array of one real element) at one integer position whose index is the
\* sentinel leaves what a read returns at every other position as it was.
C14_WriteAtMaskedKeepsOthers ==
    [][(/\ mlast'.op = "set" /\ mwriteable
        /\ mlast'.where.kind = "int"
        /\ At(mindex, mlast'.where.p) = mmaskedwhen
        /\ \/ mlast'.what.kind = "scalar"
           \/ /\ mlast'.what.kind \in {"list", "ndarray"}
              /\ Len(mlast'.what.elems) = 1
              /\ mlast'.what.elems[1] # MaskedConstant) =>
          \A q \in 0..(Len(mindex) - 1) :
              q # Norm(mlast'.where.p, Len(mindex)) =>
                  MGetitemInt(mindex', mcontent', mmaskedwhen, q)
                    = MGetitemInt(mindex, mcontent, mmaskedwhen, q)]_vars

(***************************************************************************)
(*                        Claims about UnionArray                          *)
(***************************************************************************)

\* The tags and the index values a positional selector selects.
SelTags(where) == Gather(utags, Positions(where, Len(utags)))
SelIndex(where) == Gather(uindex, Positions(where, Len(utags)))

\* C3: with tags and index of one shape, a positional read whose selected
\* tags hold exactly one distinct value v returns Contents[v][Index[s]] itself
\* (for a single position p, the element Contents[Tag[p]][Index[p]]), which
\* is an IndexError when a selected index value is no position of
\* Contents[v]; every other positional read returns a new UnionArray over
\* Tag[s], Index[s] and the whole, unchanged contents tuple.
C3_ReadCollapsesSingleTag ==
    (ulast.op = "get" /\ ulast.where.kind # "str" /\ Len(utags) = Len(uindex)) =>
        LET t == SelTags(ulast.where)
            i == SelIndex(ulast.where)
        IN  IF \E v \in Uniques(t) : Uniques(t) = {v}
            THEN LET content == ucontents[t[1] + 1]
                 IN  IF \E j \in 1..Len(i) : i[j] >= Len(content)
                     THEN ulast.err = "IndexError"
                     ELSE /\ ulast.err = "none"
                          /\ IF ulast.where.kind = "int"
                             THEN /\ ulast.ret.kind = "scalar"
                                  /\ ulast.ret.val = content[i[1] + 1]
                             ELSE /\ ulast.ret.kind = "array"
                                  /\ ulast.ret.arr =
                                        [j \in 1..Len(i) |-> content[i[j] + 1]]
            ELSE /\ ulast.err = "none"
                 /\ ulast.ret.kind = "union"
                 /\ ulast.ret.view.tags = t
                 /\ ulast.ret.view.index = i
                 /\ ulast.ret.view.contents = ucontents

\* A slice of one position was read and gave that tag's content at the
\* position's index, as an array; the view holds both tags.
C3_Witness ==
    /\ ulast.op = "get"
    /\ ulast.where.kind = "slice"
    /\ ulast.ret.kind = "array"
    /\ Len(ulast.ret.arr) = 1
    /\ Uniques(utags) = {0, 1}

\* C7: when tags and index differ in shape, every access (positional or by
\* column name, read or write) fails with the tags/index shape error, and no
\* content array, tag or index is modified.
C7_ShapeMismatchAlwaysFails ==
    [][(ulast'.op \in {"get", "set"} /\ Len(utags) # Len(uindex)) =>
          /\ ulast'.err = "tags-index-shape"
          /\ UNCHANGED <<utags, uindex, ucontents>>]_vars

\* C8 as stated: on a writeable view, a positional write of a list or an array
\* whose length differs from the number of targeted positions fails and
\* modifies no content array, a length of one included.
C8_LengthMismatchFails ==
    [][(/\ ulast'.op = "set"
        /\ uwriteable
        /\ ulast'.where.kind # "str"
        /\ ulast'.what.kind \in {"list", "ndarray"}
        /\ Len(ulast'.what.elems) # Len(SelTags(ulast'.where))) =>
          /\ ulast'.err # "none"
          /\ ucontents' = ucontents]_vars

\* C8 amended: on a writeable view, a positional write of a list or an array
\* whose length is neither the number of targeted positions nor one fails and
\* modifies no content array; a list or an array of one element written to a
\* slice or a list of positions, of a view whose tags and index have one shape
\* and whose targeted index values are positions of their tags' content
\* arrays, does not fail: every targeted element of every content array is
\* that one element afterwards, and every other element is as it was.
C8_LengthMismatchFailsUnlessOne ==
    [][/\ (/\ ulast'.op = "set"
           /\ uwriteable
           /\ ulast'.where.kind # "str"
           /\ ulast'.what.kind \in {"list", "ndarray"}
           /\ Len(ulast'.what.elems) # Len(SelTags(ulast'.where))
           /\ Len(ulast'.what.elems) # 1) =>
             /\ ulast'.err # "none"
             /\ ucontents' = ucontents
       /\ (/\ ulast'.op = "set"
           /\ uwriteable
           /\ ulast'.where.kind \in {"slice", "list"}
           /\ ulast'.what.kind \in {"list", "ndarray"}
           /\ Len(ulast'.what.elems) = 1
           /\ Len(utags) = Len(uindex)
           /\ \A j \in 1..Len(SelTags(ulast'.where)) :
                 SelIndex(ulast'.where)[j] < Len(ucontents[SelTags(ulast'.where)[j] + 1])) =>
             LET t == SelTags(ulast'.where)
                 i == SelIndex(ulast'.where)
             IN  /\ ulast'.err = "none"
                 /\ Len(ucontents') = Len(ucontents)
                 /\ \A c \in 1..Len(ucontents) :
                       /\ Len(ucontents'[c]) = Len(ucontents[c])
                       /\ \A k \in 1..Len(ucontents[c]) :
                             ucontents'[c][k] =
                                 IF \E j \in 1..Len(t) : t[j] = c - 1 /\ i[j] + 1 = k
                                 THEN ulast'.what.elems[1]
                                 ELSE ucontents[c][k]]_vars

\* A list of one element was written to a slice of two positions with
\* different tags, of a writeable view whose tags and index match and whose
\* index values are inside: the write did not fail, and both content arrays
\* hold the element.
C8_Witness ==
    /\ ulast.op = "set"
    /\ uwriteable
    /\ ulast.where = SliceSel(0, 2)
    /\ ulast.what = ListWhat(<<Elem(1)>>)
    /\ ulast.err = "none"
    /\ Len(utags) = Len(uindex)
    /\ utags[1] # utags[2]
    /\ \E c \in 1..Len(ucontents) : \E k \in 1..Len(ucontents[c]) :
          ucontents[c][k] = Elem(1)
    /\ \A c \in 1..Len(ucontents) : \E k \in 1..Len(ucontents[c]) :
          ucontents[c][k] = Elem(1)


(***************************************************************************)
(*                     Claims about ByteIndexedArray                       *)
(***************************************************************************)

\* The itemsize bytes of the buffer from byte offset o on.
ItemAt(o) == SubSeq(bcontent, o + 1, o + bitemsize)

\* C4: for every buffer, every item size and every index of in-range byte
\* offsets (unaligned, repeated, overlapping), a batched read returns one value
\* for each offset it selects, the i-th the very value the scalar read at the
\* i-th offset returns: the itemsize bytes of the buffer from that offset on;
\* a batched read selecting no offset returns an empty array.
C4_BatchReadEqualsScalarReads ==
    (blast.op = "get" /\ blast.where.kind \in {"slice", "list"}) =>
        LET pos == Positions(blast.where, Len(bindex))
        IN  /\ blast.err = "none"
            /\ blast.ret.kind = "array"
            /\ Len(blast.ret.arr) = Len(pos)
            /\ \A j \in 1..Len(pos) :
                  LET one == BGetitem(bindex, bcontent, bitemsize, IntSel(pos[j]))
                  IN  /\ one.err = "none"
                      /\ blast.ret.arr[j] = one.ret.val
                      /\ blast.ret.arr[j] = ItemAt(bindex[pos[j] + 1])

\* All five offsets of an index were read in one batch as 8-byte items, two
\* of them overlapping and one of them not aligned.
C4_Witness ==
    /\ blast.op = "get"
    /\ blast.where = SliceSel(0, 5)
    /\ bitemsize = 8
    /\ Len(blast.ret.arr) = 5
    /\ bindex[1] = 1
    /\ bindex[2] = 2
    /\ bindex[3] = 1


(***************************************************************************)
(*                   Claims about the index-based views                    *)
(***************************************************************************)

\* C12: on an IndexedArray, an IndexedMaskedArray and a UnionArray that is not
\* writeable, every positional write, whatever is written (a scalar, the
\* missing marker, a list, an array), fails with the read-only error and
\* leaves the index, the tags and every content array as they were.
C12_ReadOnlyWriteFails ==
    [][/\ (ilast'.op = "set" /\ ilast'.where.kind # "str" /\ ~iwriteable) =>
             (ilast'.err = "read-only" /\ UNCHANGED <<iindex, icontent>>)
       /\ (mlast'.op = "set" /\ mlast'.where.kind # "str" /\ ~mwriteable) =>
             (mlast'.err = "read-only" /\ UNCHANGED <<mindex, mcontent>>)
       /\ (ulast'.op = "set" /\ ulast'.where.kind # "str" /\ ~uwriteable) =>
             (ulast'.err = "read-only" /\ UNCHANGED <<utags, uindex, ucontents>>)]_vars

\* C12 witness: the missing marker was written to a slice of two positions of
\* an IndexedMaskedArray that is not writeable, and the write failed.
C12_Witness ==
    /\ mlast.op = "set"
    /\ mlast.where = SliceSel(0, 2)
    /\ mlast.what.kind = "masked"
    /\ ~mwriteable
    /\ mlast.err = "read-only"
    /\ \E k \in 1..Len(mindex) : mindex[k] # mmaskedwhen


\* C13: a read of an IndexedArray, an IndexedMaskedArray or a UnionArray by
\* the name of a column of its content succeeds and returns a new view of the
\* same kind over the same index (the same tags, the same sentinel), with the
\* same writeable flag, over the content projected on the column (every
\* content array, for the union); the view that was read is as it was.
C13_ColumnReadGivesProjectedView ==
    [][/\ (ilast'.op = "get" /\ ilast'.where.kind = "str"
              /\ ilast'.where.name \in ColumnNames) =>
             /\ ilast'.err = "none"
             /\ ilast'.ret.kind = "view"
             /\ ilast'.ret.view = [index |-> iindex, content |-> icontent,
                                   columns |-> NoColumns, writeable |-> iwriteable]
             /\ UNCHANGED <<iindex, icontent, iwriteable>>
       /\ (mlast'.op = "get" /\ mlast'.where.kind = "str"
              /\ mlast'.where.name \in ColumnNames) =>
             /\ mlast'.err = "none"
             /\ mlast'.ret.kind = "view"
             /\ mlast'.ret.view = [index |-> mindex, content |-> mcontent,
                                   columns |-> NoColumns, maskedwhen |-> mmaskedwhen,
                                   writeable |-> mwriteable]
             /\ UNCHANGED <<mindex, mcontent, mmaskedwhen, mwriteable>>
       /\ (ulast'.op = "get" /\ ulast'.where.kind = "str"
              /\ ulast'.where.name \in ColumnNames) =>
             /\ ulast'.err = "none"
             /\ ulast'.ret.kind = "union"
             /\ ulast'.ret.view = [tags |-> utags, index |-> uindex,
                                   contents |-> ucontents, writeable |-> uwriteable]
             /\ UNCHANGED <<utags, uindex, ucontents, uwriteable>>]_vars

====
